---- MODULE Spec2Model ----
(***************************************************************************)
(* Foot-measurement cloud function (firebase/functions/foot_measurement): *)
(* the measure_feet request handler, the per-image pipeline it drives,    *)
(* the measurer measure_foot and the aggregation of the per-image         *)
(* measurements.                                                          *)
(*                                                                        *)
(* Numbers.  Centimetre values that the code rounds to one decimal are    *)
(* kept as integer tenths of a centimetre (40.0 cm is 400), a confidence  *)
(* rounded to two decimals as integer hundredths (1.0 is 100).  The       *)
(* scale pixels_per_cm is the rational <<numerator, denominator>>.  The   *)
(* code computes in binary floating point; the model computes in exact    *)
(* arithmetic and, where a value lies exactly half way between two        *)
(* roundings (the direction then depends on the binary representation     *)
(* and on the rounding routine), both neighbours are possible outcomes.   *)
(*                                                                        *)
(* An input image is described by what the library calls return on it:    *)
(* whether base64/imdecode accept the payload, the markers (id and four   *)
(* corners) the detector finds, whether the segmented mask holds a        *)
(* contour and                                                            *)
(* the side lengths (pixels) of the minimum-area rectangle of its         *)
(* largest contour.                                                       *)
(***************************************************************************)
EXTENDS Integers, Sequences, FiniteSets, TLC

VARIABLES
    req,               \* req.data of the call being handled
    pc,                \* position of the handler in measure_feet
    idx,               \* number of images the for loop has taken so far
    image,             \* the loop's  image  (result of decode_base64)
    marker_corners,    \* the loop's  marker_corners  (one entry per marker)
    transform_matrix,  \* the loop's  transform_matrix
    pixels_per_cm,     \* the loop's  pixels_per_cm  <<num, den>>
    foot_mask,         \* process_single_image's  foot_mask
    all_measurements,  \* the list  all_measurements
    exc,               \* the exception in flight ("" when none)
    response,          \* the https_fn.Response returned (status 0: none yet)
    log                \* history: the stages run, in order, <<image, stage>>

vars == <<req, pc, idx, image, marker_corners, transform_matrix, pixels_per_cm,
          foot_mask, all_measurements, exc, response, log>>

----------------------------------------------------------------------------
(* Bounds of the model *)

\* longest images list of a modelled request
MaxImages == 3
\* longest measurement sequence handed to the aggregation on its own
MaxMeas == 3
\* length of the long runs of near-equal measurements handed to the aggregation
MaxRun == 395
\* largest small rectangle side (pixels) handed to measure_foot on its own
MaxSide == 12
\* most markers handed to get_perspective_transform on its own
MaxMarkers == 3

----------------------------------------------------------------------------
(* Program constants *)

\* get_perspective_transform: ideal_width_pixels = 1000
ideal_width_pixels == 1000
\* get_perspective_transform: known_width_cm: float = 30.0
known_width_cm == 30

----------------------------------------------------------------------------
(* Input images *)

NoImage == [payload |-> "none", markers |-> <<>>, contour |-> FALSE, w |-> 0, h |-> 0]
NullImage == [payload |-> "null", markers |-> <<>>, contour |-> FALSE, w |-> 0, h |-> 0]
NoMask == [contour |-> FALSE, w |-> 0, h |-> 0]
NoScale == <<0, 1>>
NoTransform == [shape |-> <<0, 0>>, src_points |-> <<>>]

\* payload that base64.b64decode rejects (binascii.Error)
BadB64Img == [payload |-> "badb64", markers |-> <<>>, contour |-> FALSE, w |-> 0, h |-> 0]
\* valid base64 of bytes that are no image: cv2.imdecode returns None
NotImageImg == [payload |-> "notimage", markers |-> <<>>, contour |-> FALSE, w |-> 0, h |-> 0]
\* a detected marker: its id and its 4 corners, here a square of 50 pixels
\* with first corner (x, y), wound as the detector winds them
Square(id, x, y) ==
    [id |-> id,
     corners |-> <<(<<x, y>>), (<<x, y + 50>>), (<<x + 50, y + 50>>), (<<x + 50, y>>)>>]

\* decodable images, by what detector, segmenter and minAreaRect find in them
NoMarkerImg == [payload |-> "image", markers |-> <<>>, contour |-> TRUE, w |-> 1333, h |-> 667]
OneMarkerImg ==
    [payload |-> "image", markers |-> <<Square(3, 100, 100)>>,
     contour |-> TRUE, w |-> 1333, h |-> 667]
NoContourImg ==
    [payload |-> "image", markers |-> <<Square(3, 100, 100), Square(7, 400, 100)>>,
     contour |-> FALSE, w |-> 0, h |-> 0]
FootAImg ==
    [payload |-> "image", markers |-> <<Square(3, 100, 100), Square(7, 400, 100)>>,
     contour |-> TRUE, w |-> 1333, h |-> 667]
FootBImg ==
    [payload |-> "image",
     markers |-> <<Square(3, 100, 100), Square(7, 400, 100), Square(9, 100, 600)>>,
     contour |-> TRUE, w |-> 633, h |-> 1400]
\* the same marker printed twice: the detector reports each copy, both with id 3
TwinMarkerImg ==
    [payload |-> "image", markers |-> <<Square(3, 100, 100), Square(3, 400, 100)>>,
     contour |-> TRUE, w |-> 1333, h |-> 667]

ImageKinds ==
    {BadB64Img, NotImageImg, NoMarkerImg, OneMarkerImg, NoContourImg, FootAImg, FootBImg,
     TwinMarkerImg}

SeqsUpTo(S, n) == UNION {[1..k -> S] : k \in 0..n}

\* req.data: None or empty, a dict without 'images', a dict whose 'images' is
\* not iterable, or a dict with a list of payloads
Requests ==
    {[kind |-> k, images |-> <<>>] : k \in {"empty", "noimages", "notiterable"}}
    \cup {[kind |-> "images", images |-> s] : s \in SeqsUpTo(ImageKinds, MaxImages)}

----------------------------------------------------------------------------
(* Responses *)

NoResult == [foot_length_cm |-> 0, foot_width_cm |-> 0, confidence |-> 0,
             num_images_processed |-> 0]
NoResponse == [status |-> 0, error |-> "", result |-> NoResult]
ErrorResponse(status, msg) == [status |-> status, error |-> msg, result |-> NoResult]
SuccessResponse(result) == [status |-> 200, error |-> "", result |-> result]

Logged(stage) == Append(log, <<idx, stage>>)

----------------------------------------------------------------------------
(* Arithmetic *)

Max(a, b) == IF a >= b THEN a ELSE b
Min(a, b) == IF a <= b THEN a ELSE b

\* round(num/den) to the nearest integer, num >= 0, den > 0: the possible
\* results; both neighbours when num/den lies exactly half way
RoundCands(num, den) ==
    LET q == num \div den
        r == num % den
    IN  IF 2 * r < den THEN {q}
        ELSE IF 2 * r > den THEN {q + 1}
        ELSE {q, q + 1}

RECURSIVE IsqrtIter(_, _)
IsqrtIter(P, x) ==
    LET y == (x + P \div x) \div 2
    IN  IF y >= x THEN x ELSE IsqrtIter(P, y)

\* the integer part of the square root of P >= 0
Isqrt(P) == IF P = 0 THEN 0 ELSE IsqrtIter(P, P)

\* square roots are kept to 1/StdScale
StdScale == 100
\* above SmallRadicand, P * StdScale^2 no longer fits a 32-bit integer
SmallRadicand == 200000

\* floor and ceiling of StdScale * sqrt(P), exact when P is a perfect square.
\* For a large P = a^2 + u, a = Isqrt(P): sqrt(P) - a = u / (sqrt(P) + a)
\* lies between u / (2a + 1) and u / (2a).
SqrtLo(P) ==
    IF P <= SmallRadicand THEN Isqrt(P * StdScale * StdScale)
    ELSE LET a == Isqrt(P)
             u == P - a * a
         IN  StdScale * a + (StdScale * u) \div (2 * a + 1)

SqrtHi(P) ==
    IF P <= SmallRadicand
    THEN LET r == Isqrt(P * StdScale * StdScale)
         IN  IF r * r = P * StdScale * StdScale THEN r ELSE r + 1
    ELSE LET a == Isqrt(P)
             u == P - a * a
         IN  StdScale * a + (StdScale * u + 2 * a - 1) \div (2 * a)

\* xs[lo] + ... + xs[hi], by halves
RECURSIVE SumRange(_, _, _)
SumRange(xs, lo, hi) ==
    IF lo > hi THEN 0
    ELSE IF lo = hi THEN xs[lo]
    ELSE LET mid == (lo + hi) \div 2
         IN  SumRange(xs, lo, mid) + SumRange(xs, mid + 1, hi)

Sum(xs) == SumRange(xs, 1, Len(xs))

----------------------------------------------------------------------------
(* get_perspective_transform, segment_foot, measure_foot *)

\* 4 times the mean of the 4 corners of a marker (lines 72-73: .mean(axis=0))
Center4(quad) ==
    <<quad[1][1] + quad[2][1] + quad[3][1] + quad[4][1],
      quad[1][2] + quad[2][2] + quad[3][2] + quad[4][2]>>

\* the scale taken of the markers: the horizontal distance of the centres of
\* the first two markers for known_width_cm
PerspectiveTransformByDistance(corners) ==
    IF Len(corners) < 2
    THEN [raises |-> "IndexError", reads |-> <<0, 1>>,
          transform_matrix |-> NoTransform, pixels_per_cm |-> NoScale]
    ELSE LET dx == Center4(corners[2])[1] - Center4(corners[1])[1]
         IN  [raises |-> "", reads |-> <<0, 1, 0, 0, 1, 1>>,
              transform_matrix |->
                  [shape |-> <<3, 3>>,
                   src_points |-> <<corners[1][1], corners[1][3],
                                    corners[2][1], corners[2][3]>>],
              pixels_per_cm |-> <<IF dx >= 0 THEN dx ELSE 0 - dx, 4 * known_width_cm>>]

\* get_perspective_transform(marker_corners).  The entries of marker_corners
\* are read in the order of lines 72, 73, 82-85 (reads: the positions
\* indexed, counted from 0 as in the code); indexing a position the sequence
\* does not have raises IndexError.  Else the 3x3 matrix that
\* cv2.getPerspectiveTransform computes of corners 0 and 2 of the first two
\* markers, kept as those source points, and
\* pixels_per_cm = ideal_width_pixels / known_width_cm
get_perspective_transform(corners) ==
    IF Len(corners) = 0
    THEN [raises |-> "IndexError", reads |-> <<0>>,
          transform_matrix |-> NoTransform, pixels_per_cm |-> NoScale]
    ELSE IF Len(corners) = 1
    THEN [raises |-> "IndexError", reads |-> <<0, 1>>,
          transform_matrix |-> NoTransform, pixels_per_cm |-> NoScale]
    ELSE [raises |-> "", reads |-> <<0, 1, 0, 0, 1, 1>>,
          transform_matrix |->
              [shape |-> <<3, 3>>,
               src_points |-> <<corners[1][1], corners[1][3],
                                corners[2][1], corners[2][3]>>],
          pixels_per_cm |-> <<ideal_width_pixels, known_width_cm>>]

\* warpPerspective + segment_foot: the mask found for the image
segment_foot(img) == [contour |-> img.contour, w |-> img.w, h |-> img.h]

\* a side of `side` pixels in tenths of a centimetre, rounded to 1 decimal:
\* round(side / pixels_per_cm, 1)
RoundedCm(side, ppcm) == RoundCands(side * 10 * ppcm[2], ppcm[1])

\* measure_foot without max/min: width reported as length, height as width
MeasureFootUnordered(mask, ppcm) ==
    {[length |-> l, width |-> w] :
        l \in RoundedCm(mask.w, ppcm), w \in RoundedCm(mask.h, ppcm)}

\* cv2.boundingRect in place of cv2.minAreaRect: it counts the pixels, one
\* more than the distance between the outermost contour points
MeasureFootBoundingRect(mask, ppcm) ==
    {[length |-> l, width |-> w] :
        l \in RoundedCm(Max(mask.w, mask.h) + 1, ppcm),
        w \in RoundedCm(Min(mask.w, mask.h) + 1, ppcm)}

\* measure_foot(mask, pixels_per_cm) once a contour is found: the possible
\* returned dicts.  The same float is rounded to the same value.
measure_foot(mask, ppcm) ==
    LET width == mask.w
        height == mask.h
        longer == Max(width, height)
        shorter == Min(width, height)
    IN  {m \in [length : RoundedCm(longer, ppcm), width : RoundedCm(shorter, ppcm)] :
            longer = shorter => m.length = m.width}

----------------------------------------------------------------------------
(* Aggregation: measure_feet lines 175-186 *)

Lengths(ms) == [i \in 1..Len(ms) |-> ms[i].length]
Widths(ms) == [i \in 1..Len(ms) |-> ms[i].width]

\* np.mean(xs) as the rational <<sum, n>>
NpMean(xs) == <<Sum(xs), Len(xs)>>

\* n^2 times the population variance of xs: n * sum(d^2) - sum(d)^2, with
\* d the deviations from xs[1] (the variance does not depend on the shift)
VarNum(xs) ==
    LET n == Len(xs)
        d == [i \in 1..n |-> xs[i] - xs[1]]
        dd == [i \in 1..n |-> d[i] * d[i]]
    IN  n * Sum(dd) - Sum(d) * Sum(d)

\* np.std(xs), the population standard deviation: sqrt(radicand) / (10 * n)
\* centimetres
NpStd(xs) == [radicand |-> VarNum(xs), n |-> Len(xs)]

\* above SmallSquare, 201^2 * A no longer fits a 32-bit integer
SmallSquare == 50000

\* X = sqrt(A) + sqrt(B) for the radicands A, B of the two standard
\* deviations, with its bounds lo <= StdScale * X <= hi
Roots(length_std, width_std) ==
    [A |-> length_std.radicand, B |-> width_std.radicand,
     lo |-> SqrtLo(length_std.radicand) + SqrtLo(width_std.radicand),
     hi |-> SqrtHi(length_std.radicand) + SqrtHi(width_std.radicand)]

\* whether c * X <= M: decided by the bounds on the roots (exact when A and
\* B are perfect squares), else for a single root by squaring, else left
\* "open"
RootsAtMost(r, c, M) ==
    IF c * r.hi <= M * StdScale THEN "yes"
    ELSE IF c * r.lo > M * StdScale THEN "no"
    ELSE IF (r.A = 0 \/ r.B = 0) /\ r.A + r.B <= SmallSquare
    THEN IF c * c * (r.A + r.B) <= M * M THEN "yes" ELSE "no"
    ELSE "open"

\* whether c * X >= M, likewise
RootsAtLeast(r, c, M) ==
    IF c * r.lo >= M * StdScale THEN "yes"
    ELSE IF c * r.hi < M * StdScale THEN "no"
    ELSE IF (r.A = 0 \/ r.B = 0) /\ r.A + r.B <= SmallSquare
    THEN IF c * c * (r.A + r.B) >= M * M THEN "yes" ELSE "no"
    ELSE "open"

\* a sign slip: 1.0 / (1.0 + length_std - width_std), by the bounds on the roots
ConfidenceSignSlip(length_std, width_std) ==
    LET D == 10 * StdScale * length_std.n
        lo == SqrtLo(length_std.radicand) - SqrtHi(width_std.radicand)
        hi == SqrtHi(length_std.radicand) - SqrtLo(width_std.radicand)
    IN  {k \in 0..200 :
            /\ (2 * k - 1) * (D + lo) <= 200 * D
            /\ (2 * k + 1) * (D + hi) >= 200 * D}

\* the confidence rounded to 1 decimal in place of 2
ConfidenceOneDecimal(length_std, width_std) ==
    LET n == length_std.n
        r == Roots(length_std, width_std)
    IN  {10 * j : j \in {k \in 0..10 :
            /\ RootsAtMost(r, 2 * k - 1, 10 * n * (21 - 2 * k)) # "no"
            /\ RootsAtLeast(r, 2 * k + 1, 10 * n * (19 - 2 * k)) # "no"}}

\* round(1.0 / (1.0 + length_std + width_std), 2) in hundredths.  With
\* X = sqrt(A) + sqrt(B), length_std + width_std = X / (10 n), and k is the
\* rounding when k - 1/2 <= 100 / (1 + X / (10 n)) <= k + 1/2, that is
\* (2k - 1) X <= 10 n (201 - 2k)  and  (2k + 1) X >= 10 n (199 - 2k)
Confidence(length_std, width_std) ==
    LET n == length_std.n
        r == Roots(length_std, width_std)
    IN  {k \in 0..100 :
            /\ RootsAtMost(r, 2 * k - 1, 10 * n * (201 - 2 * k)) # "no"
            /\ RootsAtLeast(r, 2 * k + 1, 10 * n * (199 - 2 * k)) # "no"}

\* np.mean, np.std of an empty list are nan, and so is all computed of them
NaN == 0 - 1

\* a copy-paste slip: the average width taken of the lengths
AggregateResultsOfLengths(ms) ==
    LET avg_length == NpMean(Lengths(ms))
        length_std == NpStd(Lengths(ms))
        width_std == NpStd(Widths(ms))
    IN  [foot_length_cm : RoundCands(avg_length[1], avg_length[2]),
         foot_width_cm : RoundCands(avg_length[1], avg_length[2]),
         confidence : Confidence(length_std, width_std),
         num_images_processed : {Len(ms)}]

\* lines 175-186: the possible result dicts of measure_feet
AggregateResults(ms) ==
    LET avg_length == NpMean(Lengths(ms))
        avg_width == NpMean(Widths(ms))
        length_std == NpStd(Lengths(ms))
        width_std == NpStd(Widths(ms))
    IN  IF ms = <<>>
        THEN {[foot_length_cm |-> NaN, foot_width_cm |-> NaN, confidence |-> NaN,
               num_images_processed |-> 0]}
        ELSE [foot_length_cm : RoundCands(avg_length[1], avg_length[2]),
              foot_width_cm : RoundCands(avg_width[1], avg_width[2]),
              confidence : Confidence(length_std, width_std),
              num_images_processed : {Len(ms)}]

----------------------------------------------------------------------------
(* measure_feet, one action per step of the handler *)

Init ==
    /\ req \in Requests
    /\ pc = "entry"
    /\ idx = 0
    /\ image = NoImage
    /\ marker_corners = <<>>
    /\ transform_matrix = NoTransform
    /\ pixels_per_cm = NoScale
    /\ foot_mask = NoMask
    /\ all_measurements = <<>>
    /\ exc = ""
    /\ response = NoResponse
    /\ log = <<>>

\* a handler without the try/except: the exception leaves measure_feet
CatchNothing(e) == [status |-> -1, error |-> e, result |-> NoResult]

\* the except clause of measure_feet: any Exception becomes a 500 response
\* carrying str(e)
Catch(e) == ErrorResponse(500, e)

\* raise e at the current position: control moves to the except clause
Raise(e) ==
    /\ exc' = e
    /\ pc' = "except"

\* a guard that tests only  not data
NoImagesProvidedDataOnly(data) == data.kind = "empty"

\* line 150: not data or 'images' not in data
NoImagesProvided(data) == data.kind \in {"empty", "noimages"}

\* lines 149-156: data = req.data; no data or no 'images' key is answered 400
Entry ==
    /\ pc = "entry"
    /\ IF NoImagesProvided(req)
       THEN /\ response' = ErrorResponse(400, "No images provided")
            /\ pc' = "done"
       ELSE /\ response' = response
            /\ pc' = "for"
    /\ all_measurements' = <<>>
    /\ UNCHANGED <<req, idx, image, marker_corners, transform_matrix, pixels_per_cm, foot_mask, exc, log>>

\* line 158: for image_base64 in data['images']
ForNext ==
    /\ pc = "for"
    /\ IF req.kind \in {"notiterable", "empty"}
       THEN /\ Raise("TypeError")
            /\ idx' = idx
       ELSE IF req.kind = "noimages"
       THEN /\ Raise("KeyError")
            /\ idx' = idx
       ELSE IF idx < Len(req.images)
       THEN /\ idx' = idx + 1
            /\ pc' = "decode"
            /\ exc' = exc
       ELSE /\ idx' = idx
            /\ pc' = "aggregate"
            /\ exc' = exc
    /\ UNCHANGED <<req, image, marker_corners, transform_matrix, pixels_per_cm, foot_mask,
                   all_measurements, response, log>>

\* ImageProcessor.decode_base64: b64decode raises on a malformed payload;
\* imdecode returns None for bytes that are no image
decode_base64(payload) ==
    IF payload.payload = "badb64" THEN [raises |-> "binascii.Error", image |-> NoImage]
    ELSE IF payload.payload = "notimage" THEN [raises |-> "", image |-> NullImage]
    ELSE [raises |-> "", image |-> payload]

\* ImageProcessor.detect_markers: detectMarkers raises cv2.error on a None
\* image; no marker gives an empty array, else the corners of each marker
\* and, apart, the list of their ids
detect_markers(img) ==
    IF img.payload = "null" THEN [raises |-> "cv2.error", corners |-> <<>>, ids |-> <<>>]
    ELSE [raises |-> "",
          corners |-> [i \in 1..Len(img.markers) |-> img.markers[i].corners],
          ids |-> [i \in 1..Len(img.markers) |-> img.markers[i].id]]

\* line 159
Decode ==
    /\ pc = "decode"
    /\ LET r == decode_base64(req.images[idx])
       IN  IF r.raises # ""
           THEN /\ Raise(r.raises)
                /\ image' = image
           ELSE /\ image' = r.image
                /\ pc' = "detect"
                /\ exc' = exc
    /\ log' = Logged("decode")
    /\ UNCHANGED <<req, idx, marker_corners, transform_matrix, pixels_per_cm, foot_mask,
                   all_measurements, response>>

\* line 160
Detect ==
    /\ pc = "detect"
    /\ LET r == detect_markers(image)
       IN  IF r.raises # ""
           THEN /\ Raise(r.raises)
                /\ marker_corners' = marker_corners
           ELSE /\ marker_corners' = r.corners
                /\ pc' = "check"
                /\ exc' = exc
    /\ log' = Logged("detect")
    /\ UNCHANGED <<req, idx, image, transform_matrix, pixels_per_cm, foot_mask, all_measurements,
                   response>>

\* a guard that skips only the images without any marker
TooFewMarkersNone(corners) == Len(corners) < 1

\* line 162: the image is skipped when fewer than 2 markers were found
TooFewMarkers(corners) == Len(corners) < 2

\* break in place of continue: the first image short of markers ends the loop
SkipBreaks == "aggregate"

\* a retry in place of continue: the image short of markers is decoded again
SkipRetries == "decode"

\* line 163: continue, the loop goes on with the next image
SkipContinues == "for"

\* lines 162-163
CheckMarkers ==
    /\ pc = "check"
    /\ IF TooFewMarkers(marker_corners)
       THEN /\ log' = Logged("skip")
            /\ pc' = SkipContinues
       ELSE /\ log' = log
            /\ pc' = "rectify"
    /\ UNCHANGED <<req, idx, image, marker_corners, transform_matrix, pixels_per_cm, foot_mask,
                   all_measurements, exc, response>>
\* line 165
Rectify ==
    /\ pc = "rectify"
    /\ LET r == get_perspective_transform(marker_corners)
       IN  IF r.raises # ""
           THEN /\ Raise(r.raises)
                /\ transform_matrix' = transform_matrix
                /\ pixels_per_cm' = pixels_per_cm
           ELSE /\ transform_matrix' = r.transform_matrix
                /\ pixels_per_cm' = r.pixels_per_cm
                /\ pc' = "segment"
                /\ exc' = exc
    /\ log' = Logged("rectify")
    /\ UNCHANGED <<req, idx, image, marker_corners, foot_mask, all_measurements,
                   response>>

\* line 166, process_single_image lines 140-142: warp and segment
Segment ==
    /\ pc = "segment"
    /\ foot_mask' = segment_foot(image)
    /\ pc' = "measure"
    /\ log' = Logged("segment")
    /\ UNCHANGED <<req, idx, image, marker_corners, transform_matrix, pixels_per_cm,
                   all_measurements, exc, response>>

\* process_single_image line 143 and measure_feet line 167: measure_foot
\* raises ValueError when the mask has no contour; else the measurement is
\* appended
Measure ==
    /\ pc = "measure"
    /\ IF ~foot_mask.contour
       THEN /\ Raise("No foot contour found")
            /\ all_measurements' = all_measurements
       ELSE /\ \E measurements \in measure_foot(foot_mask, pixels_per_cm) :
                  all_measurements' = Append(all_measurements, measurements)
            /\ pc' = "for"
            /\ exc' = exc
    /\ log' = Logged("measure")
    /\ UNCHANGED <<req, idx, image, marker_corners, transform_matrix, pixels_per_cm, foot_mask,
                   response>>

\* the check left out: the statistics are taken of whatever is there
NothingMeasuredNever(ms) == FALSE

\* line 169: if not all_measurements
NothingMeasured(ms) == ms = <<>>

\* lines 169-188: 400 when nothing was measured, else the aggregate result
Aggregate ==
    /\ pc = "aggregate"
    /\ IF NothingMeasured(all_measurements)
       THEN /\ response' = ErrorResponse(400, "Could not process any images")
            /\ log' = log
       ELSE /\ \E result \in AggregateResults(all_measurements) :
                  response' = SuccessResponse(result)
            /\ log' = Append(log, <<Len(all_measurements), "stats">>)
    /\ pc' = "done"
    /\ UNCHANGED <<req, idx, image, marker_corners, transform_matrix, pixels_per_cm, foot_mask,
                   all_measurements, exc>>

\* lines 190-194
Except ==
    /\ pc = "except"
    /\ response' = Catch(exc)
    /\ pc' = "done"
    /\ UNCHANGED <<req, idx, image, marker_corners, transform_matrix, pixels_per_cm, foot_mask,
                   all_measurements, exc, log>>

Next ==
    \/ Entry
    \/ ForNext
    \/ Decode
    \/ Detect
    \/ CheckMarkers
    \/ Rectify
    \/ Segment
    \/ Measure
    \/ Aggregate
    \/ Except

Spec == Init /\ [][Next]_vars

----------------------------------------------------------------------------
(* What an input image is, read off its description alone *)

Undecodable(img) == img.payload \in {"badb64", "notimage"}
FewMarkers(img) == img.payload = "image" /\ Len(img.markers) < 2
NoContour(img) == img.payload = "image" /\ Len(img.markers) >= 2 /\ ~img.contour
Measurable(img) == img.payload = "image" /\ Len(img.markers) >= 2 /\ img.contour

\* the positions 1..n of the request's images that satisfy P
Positions(P(_), n) == {i \in 1..n : P(req.images[i])}
NumImages == Len(req.images)
LogSet == {log[i] : i \in 1..Len(log)}
Finished == pc = "done"

----------------------------------------------------------------------------
(* C1: an image with fewer than 2 markers is skipped and never aborts the
   batch.  (a) the batch is never aborted while such an image is the one in
   the loop; (b) back at the head of the loop, every such image seen so far
   was skipped and all_measurements holds one entry per measurable image
   seen so far; (c) a call that ends without an exception and had at least
   one measurable image answers 200, having decoded every image;
   (d) every 200 response reports as num_images_processed exactly the number
   of measurable images. *)
C1_FewMarkersSkipped ==
    /\ (exc # "" /\ req.kind = "images") => ~FewMarkers(req.images[idx])
    /\ pc = "for" =>
          /\ Len(all_measurements) = Cardinality(Positions(Measurable, idx))
          /\ \A i \in Positions(FewMarkers, idx) : <<i, "skip">> \in LogSet
    /\ (Finished /\ exc = "" /\ Positions(Measurable, NumImages) # {}) =>
          /\ response.status = 200
          /\ \A i \in 1..NumImages : <<i, "decode">> \in LogSet
    /\ response.status = 200 =>
          response.result.num_images_processed
              = Cardinality(Positions(Measurable, NumImages))

\* 3 images, the middle one with a single marker: success with 2 processed
C1_Witness ==
    /\ Finished
    /\ req.images = <<FootAImg, OneMarkerImg, FootBImg>>
    /\ <<2, "skip">> \in LogSet
    /\ response.status = 200
    /\ response.result.num_images_processed = 2

(* C2: an image with 2 markers whose mask has no contour is skipped, and a
   batch whose other images are measurable still answers 200 with one
   processed image per measurable image. *)
C2_NoContourSkipped ==
    (/\ Finished
     /\ req.kind = "images"
     /\ \A i \in 1..NumImages : NoContour(req.images[i]) \/ Measurable(req.images[i])
     /\ Positions(Measurable, NumImages) # {})
    => /\ response.status = 200
       /\ response.result.num_images_processed
              = Cardinality(Positions(Measurable, NumImages))

(* C3: an undecodable payload is skipped, and a batch whose other images
   are measurable still answers 200 with one processed image per measurable
   image. *)
C3_UndecodableSkipped ==
    (/\ Finished
     /\ req.kind = "images"
     /\ \A i \in 1..NumImages : Undecodable(req.images[i]) \/ Measurable(req.images[i])
     /\ Positions(Measurable, NumImages) # {})
    => /\ response.status = 200
       /\ response.result.num_images_processed
              = Cardinality(Positions(Measurable, NumImages))

(* C4: a result is built only of at least one measurement: every 200
   response has num_images_processed >= 1 and as many as all_measurements
   holds; a call with an images list that is empty or holds only skipped
   images answers 400 'Could not process any images'; the statistics are
   never taken of an empty list. *)
C4_AggregateNeedsMeasurement ==
    /\ response.status = 200 =>
          /\ response.result.num_images_processed >= 1
          /\ response.result.num_images_processed = Len(all_measurements)
    /\ (/\ Finished
        /\ req.kind = "images"
        /\ \A i \in 1..NumImages : FewMarkers(req.images[i]))
       => response = ErrorResponse(400, "Could not process any images")
    /\ \A e \in LogSet : e[2] = "stats" => e[1] >= 1

\* two images, both short of markers, and the 400 answer
C4_Witness ==
    /\ Finished
    /\ req.images = <<NoMarkerImg, OneMarkerImg>>
    /\ all_measurements = <<>>
    /\ response.status = 400

(* C5: no exception leaves measure_feet.  The status is only ever 200, 400
   or 500; until it has answered the handler can always take a step (at the
   aggregation: nothing was measured, or there is a result to return), and
   it has answered exactly when it is finished; a call in which an
   exception was raised answers 500 with the exception's description, a
   call without one answers 200 or 400. *)
C5_ExceptionsBecome500 ==
    /\ response.status \in {0, 200, 400, 500}
    /\ Finished <=> response.status # 0
    /\ pc \notin {"done", "aggregate"} => ENABLED Next
    /\ pc = "aggregate" =>
          NothingMeasured(all_measurements) \/ AggregateResults(all_measurements) # {}
    /\ (Finished /\ exc # "") => response = ErrorResponse(500, exc)
    /\ (Finished /\ exc = "") => response.status \in {200, 400}

\* an exception raised in the middle of a batch, answered 500
C5_Witness ==
    /\ Finished
    /\ exc = "No foot contour found"
    /\ Len(all_measurements) = 1
    /\ response = ErrorResponse(500, "No foot contour found")

(* C6: a request with no data or without an 'images' entry is answered 400
   'No images provided', and nothing is decoded or processed for it. *)
C6_NoImagesProvided ==
    req.kind \in {"empty", "noimages"} =>
        /\ pc \in {"entry", "done"}
        /\ Finished => response = ErrorResponse(400, "No images provided")
        /\ log = <<>>
        /\ idx = 0
        /\ image = NoImage

\* a payload without an 'images' entry, answered
C6_Witness ==
    /\ Finished
    /\ req.kind = "noimages"
    /\ response = ErrorResponse(400, "No images provided")

----------------------------------------------------------------------------
(* measure_foot on its own: a mask and a scale, then the call *)

\* pixels_per_cm = 10 is the scale of tests/test_measurement.py
Scales == {<<ideal_width_pixels, known_width_cm>>, <<10, 1>>}
SideVals == (0..MaxSide) \cup {633, 667, 1333, 1400}
\* the mask of cv2.rectangle(mask, (x1, y1), (x2, y2), 255, -1) drawn on zeros:
\* the contour found runs through the outermost pixels, corners (x1, y1) and
\* (x2, y2), and its minimum-area rectangle has the sides x2 - x1 and y2 - y1
RectangleMask(x1, y1, x2, y2) == [contour |-> TRUE, w |-> x2 - x1, h |-> y2 - y1]
\* the mask of test_measure_foot
TestMask == RectangleMask(300, 400, 700, 800)
\* the same with half the width, and with half the height
DrawnMasks ==
    {TestMask, RectangleMask(300, 400, 500, 800), RectangleMask(300, 400, 700, 600)}
Masks ==
    {NoMask} \cup DrawnMasks
    \cup {[contour |-> TRUE, w |-> a, h |-> b] : a, b \in SideVals}
NoRequest == [kind |-> "images", images |-> <<>>]

InitMeasure ==
    /\ req = NoRequest
    /\ pc = "measure"
    /\ idx = 0
    /\ image = NoImage
    /\ marker_corners = <<>>
    /\ transform_matrix = NoTransform
    /\ pixels_per_cm \in Scales
    /\ foot_mask \in Masks
    /\ all_measurements = <<>>
    /\ exc = ""
    /\ response = NoResponse
    /\ log = <<>>

NextMeasure ==
    \/ Measure
    \/ Except

SpecMeasure == InitMeasure /\ [][NextMeasure]_vars

----------------------------------------------------------------------------
(* The aggregation on its own: a list of measurements, then lines 169-188 *)

Meas(l, w) == [length |-> l, width |-> w]
\* measurements that differ by the least the rounding to 1 decimal allows
NearVals == {Meas(400, 200), Meas(401, 200), Meas(400, 201)}
\* 40.0 x 20.0 and 42.0 x 19.0, a speck of 0 x 0 and a 400.0 cm long outline
MeasVals == NearVals \cup {Meas(420, 190), Meas(0, 0), Meas(4000, 0)}
\* k times m, then m2
Run(m, k, m2) == [i \in 1..(k + 1) |-> IF i <= k THEN m ELSE m2]
LongRuns == {Run(m, k, m2) : m \in NearVals, m2 \in NearVals, k \in {MaxRun - 1, MaxRun}}
AggInputs == SeqsUpTo(MeasVals, MaxMeas) \cup LongRuns

InitAgg ==
    /\ req = NoRequest
    /\ pc = "aggregate"
    /\ idx = 0
    /\ image = NoImage
    /\ marker_corners = <<>>
    /\ transform_matrix = NoTransform
    /\ pixels_per_cm = NoScale
    /\ foot_mask = NoMask
    /\ all_measurements \in AggInputs
    /\ exc = ""
    /\ response = NoResponse
    /\ log = <<>>

NextAgg == Aggregate

SpecAgg == InitAgg /\ [][NextAgg]_vars

----------------------------------------------------------------------------
(* length_std + width_std of a list of measurements, as bounds:
   lo <= 10 * StdScale * n * (length_std + width_std) <= hi *)
StdSum(ms) ==
    LET r == Roots(NpStd(Lengths(ms)), NpStd(Widths(ms)))
    IN  [lo |-> r.lo, hi |-> r.hi, n |-> Len(ms)]

\* the rounded confidence of ms is fixed by the arithmetic of the model: one
\* value, or the two neighbours of a value exactly half way
ConfidenceDecided(ms) ==
    LET c == Confidence(NpStd(Lengths(ms)), NpStd(Widths(ms)))
        r == Roots(NpStd(Lengths(ms)), NpStd(Widths(ms)))
    IN  \/ Cardinality(c) = 1
        \/ /\ Cardinality(c) = 2
           /\ \E k \in c :
                 /\ k + 1 \in c
                 /\ RootsAtMost(r, 2 * k + 1, 10 * Len(ms) * (199 - 2 * k)) = "yes"
                 /\ RootsAtLeast(r, 2 * k + 1, 10 * Len(ms) * (199 - 2 * k)) = "yes"

\* the sum a is certainly smaller than the sum b
StdLess(a, b) == a.hi * b.n < b.lo * a.n

AllAgree(ms) == \A i \in 1..Len(ms) : ms[i] = ms[1]
Succeeded == pc = "done" /\ response.status = 200
\* the lists the confidence of all_measurements is compared with
CompareInputs == SeqsUpTo(MeasVals, 2) \ {<<>>}

\* the confidence never increases when length_std + width_std increases
ConfidenceMonotone ==
    LET mine == StdSum(all_measurements)
    IN  \A other \in CompareInputs :
            LET theirs == StdSum(other)
            IN  /\ StdLess(theirs, mine) =>
                      \A c \in Confidence(NpStd(Lengths(other)), NpStd(Widths(other))) :
                          c >= response.result.confidence
                /\ StdLess(mine, theirs) =>
                      \A c \in Confidence(NpStd(Lengths(other)), NpStd(Widths(other))) :
                          c <= response.result.confidence

(* C7 as stated: the rounded confidence of a non-empty list of measurements
   is strictly greater than 0 and at most 1, and never increases when
   length_std + width_std increases. *)
C7_ConfidenceAboveZero ==
    Succeeded =>
        /\ response.result.confidence > 0
        /\ response.result.confidence <= 100
        /\ ConfidenceMonotone

(* C7 amended: the rounded confidence is at least 0 and at most 1, it is
   strictly greater than 0 whenever length_std + width_std < 199 (beyond,
   1 / (1 + s) < 0.005 rounds to 0.0), and it never increases when
   length_std + width_std increases. *)
C7_ConfidenceRange ==
    Succeeded =>
        /\ response.result.confidence >= 0
        /\ response.result.confidence <= 100
        /\ StdSum(all_measurements).hi
               < 199 * 10 * StdScale * Len(all_measurements)
           => response.result.confidence > 0
        /\ ConfidenceMonotone

\* 0.0 x 0.0 and 400.0 x 0.0: length_std = 200, confidence 1/201 rounds to 0.0
C7_Witness ==
    /\ Succeeded
    /\ all_measurements = <<Meas(0, 0), Meas(4000, 0)>>
    /\ response.result.confidence = 0

(* C8 as stated: the confidence is 1.0 exactly when all measurements agree
   in length and width. *)
C8_OneIffAllAgree ==
    Succeeded => (response.result.confidence = 100 <=> AllAgree(all_measurements))

(* C8 amended: the confidence is 1.0 whenever all measurements agree (so for
   a single measurement), and it is below 1.0 for every list of fewer than
   396 measurements that do not all agree.  (From 396 measurements on, lists
   that differ by little have length_std + width_std <= 1/199 and round to
   1.0.) *)
C8_OneWhenAllAgree ==
    Succeeded =>
        /\ AllAgree(all_measurements) => response.result.confidence = 100
        /\ (~AllAgree(all_measurements) /\ Len(all_measurements) < 396)
           => response.result.confidence < 100

\* 395 times 40.0 x 20.0 and one 40.1 x 20.0: confidence 0.995006 rounds to 1.0
C8_Witness ==
    /\ Succeeded
    /\ Len(all_measurements) = 396
    /\ ~AllAgree(all_measurements)
    /\ response.result.confidence = 100

(* C9: foot_length_cm and foot_width_cm are the arithmetic means of the
   lengths and widths of all measurements, rounded to 1 decimal (within
   half a tenth of the mean), of as many measurements as
   num_images_processed says; [(40, 20), (42, 19)] gives 41.0, 19.5 and a
   confidence strictly between 0 and 1. *)
C9_MeansOfAllMeasurements ==
    Succeeded =>
        LET n == Len(all_measurements)
            r == response.result
            dl == n * r.foot_length_cm - Sum(Lengths(all_measurements))
            dw == n * r.foot_width_cm - Sum(Widths(all_measurements))
        IN  /\ r.num_images_processed = n
            /\ 2 * dl <= n /\ -n <= 2 * dl
            /\ 2 * dw <= n /\ -n <= 2 * dw
            /\ all_measurements = <<Meas(400, 200), Meas(420, 190)>> =>
                  /\ r.foot_length_cm = 410
                  /\ r.foot_width_cm = 195
                  /\ r.confidence > 0 /\ r.confidence < 100

\* the example of the specification
C9_Witness ==
    /\ Succeeded
    /\ all_measurements = <<Meas(400, 200), Meas(420, 190)>>
    /\ response.result.foot_length_cm = 410
    /\ response.result.foot_width_cm = 195
    /\ response.result.confidence = 40

(* C10: every measurement measure_foot returns has length >= width >= 0,
   and its length is the longer side of the rectangle, its width the
   shorter one, each divided by pixels_per_cm and rounded to 1 decimal
   (within half a tenth). *)
C10_LengthAtLeastWidth ==
    (pc = "for" /\ all_measurements # <<>>) =>
        LET m == all_measurements[Len(all_measurements)]
            num == pixels_per_cm[1]
            den == pixels_per_cm[2]
            dl == m.length * num - Max(foot_mask.w, foot_mask.h) * 10 * den
            dw == m.width * num - Min(foot_mask.w, foot_mask.h) * 10 * den
        IN  /\ m.length >= m.width
            /\ m.width >= 0
            /\ 2 * dl <= num /\ -num <= 2 * dl
            /\ 2 * dw <= num /\ -num <= 2 * dw

\* a rectangle higher than wide: the height is the length
C10_Witness ==
    /\ pc = "for"
    /\ foot_mask = [contour |-> TRUE, w |-> 633, h |-> 1400]
    /\ pixels_per_cm = <<ideal_width_pixels, known_width_cm>>
    /\ all_measurements = <<Meas(420, 190)>>

----------------------------------------------------------------------------
(* get_perspective_transform on its own: a sequence of marker corners, then
   the call *)

\* first corners of the markers; (100, 100) and (400, 100) are the markers of
\* the fixture sample_markers
MarkerXs == {100, 250, 400}
MarkerYs == {100, 600}
QuadVals == {Square(0, x, y).corners : x \in MarkerXs, y \in MarkerYs}
SampleMarkers == <<Square(0, 100, 100).corners, Square(0, 400, 100).corners>>

InitRectify ==
    /\ req = NoRequest
    /\ pc = "rectify"
    /\ idx = 0
    /\ image = NoImage
    /\ marker_corners \in SeqsUpTo(QuadVals, MaxMarkers)
    /\ transform_matrix = NoTransform
    /\ pixels_per_cm = NoScale
    /\ foot_mask = NoMask
    /\ all_measurements = <<>>
    /\ exc = ""
    /\ response = NoResponse
    /\ log = <<>>

NextRectify ==
    \/ Rectify
    \/ Except

SpecRectify == InitRectify /\ [][NextRectify]_vars

\* the centres of the first two markers differ in x
HorizontallySeparated(corners) ==
    Center4(corners[1])[1] # Center4(corners[2])[1]
\* get_perspective_transform has been called and has returned or raised
Rectified == pc # "rectify"

(* C11 as stated: for a mask whose only foreground is one axis-aligned
   rectangle with sides w and h pixels, measure_foot returns
   length = round(max(w, h) / p, 1) and width = round(min(w, h) / p, 1), and
   for the rectangle of the repository test, drawn from (300, 400) to
   (700, 800) with p = 10, it returns length 40.0 and width 20.0. *)
C11_TestRectangleHalfWidth ==
    (pc = "for" /\ all_measurements # <<>>) =>
        LET m == all_measurements[Len(all_measurements)]
            num == pixels_per_cm[1]
            den == pixels_per_cm[2]
            dl == m.length * num - Max(foot_mask.w, foot_mask.h) * 10 * den
            dw == m.width * num - Min(foot_mask.w, foot_mask.h) * 10 * den
        IN  /\ 2 * dl <= num /\ -num <= 2 * dl
            /\ 2 * dw <= num /\ -num <= 2 * dw
            /\ (foot_mask = TestMask /\ pixels_per_cm = <<10, 1>>)
               => m = Meas(400, 200)

(* C11 amended: for a mask whose only foreground is one axis-aligned
   rectangle with sides w and h pixels, measure_foot returns
   length = round(max(w, h) / p, 1) and width = round(min(w, h) / p, 1):
   each within half a tenth of the quotient and equal to it when it has one
   decimal, whichever side is the longer one.  The rectangle of the
   repository test, drawn from (300, 400) to (700, 800), is a square of side
   400: with p = 10 measure_foot returns length 40.0 and width 40.0, not the
   width 20.0 the test asserts; a rectangle of 400 by 200 pixels gives 40.0
   and 20.0. *)
C11_RectangleMeasured ==
    (pc = "for" /\ all_measurements # <<>>) =>
        LET m == all_measurements[Len(all_measurements)]
            num == pixels_per_cm[1]
            den == pixels_per_cm[2]
            longer == Max(foot_mask.w, foot_mask.h) * 10 * den
            shorter == Min(foot_mask.w, foot_mask.h) * 10 * den
        IN  /\ 2 * (m.length * num - longer) <= num
            /\ 2 * (longer - m.length * num) <= num
            /\ 2 * (m.width * num - shorter) <= num
            /\ 2 * (shorter - m.width * num) <= num
            /\ longer % num = 0 => m.length * num = longer
            /\ shorter % num = 0 => m.width * num = shorter
            /\ pixels_per_cm = <<10, 1>> =>
                  /\ foot_mask = TestMask => m = Meas(400, 400)
                  /\ foot_mask \in DrawnMasks \ {TestMask} => m = Meas(400, 200)

\* the mask of the repository test measured: 40.0 by 40.0
C11_Witness ==
    /\ pc = "for"
    /\ foot_mask = TestMask
    /\ pixels_per_cm = <<10, 1>>
    /\ all_measurements = <<Meas(400, 400)>>

(* C12: get_perspective_transform called with fewer than 2 markers fails with
   InsufficientMarkersError, raised by a guard before any entry at position
   1 or beyond is indexed. *)
C12_GuardedRectifier ==
    (Rectified /\ Len(marker_corners) < 2) =>
        /\ exc = "InsufficientMarkersError"
        /\ LET reads == get_perspective_transform(marker_corners).reads
           IN  \A i \in 1..Len(reads) : reads[i] < 1

(* C13: for 2 markers whose centres are horizontally separated,
   get_perspective_transform raises nothing and returns a 3x3 matrix and the
   scale pixels_per_cm = 1000 / 30 > 0, the same whatever the positions of
   the markers are. *)
C13_ScaleFromKnownWidth ==
    (/\ Rectified
     /\ Len(marker_corners) >= 2
     /\ HorizontallySeparated(marker_corners))
    => /\ exc = ""
       /\ pc = "segment"
       /\ transform_matrix.shape = <<3, 3>>
       /\ pixels_per_cm[1] > 0 /\ pixels_per_cm[2] > 0
       /\ pixels_per_cm[1] * 30 = 1000 * pixels_per_cm[2]

\* the markers of the fixture sample_markers, 300 pixels apart: 1000 / 30
C13_Witness ==
    /\ pc = "segment"
    /\ marker_corners = SampleMarkers
    /\ transform_matrix.shape = <<3, 3>>
    /\ pixels_per_cm = <<1000, 30>>

----------------------------------------------------------------------------
(* The order of the stages, read off the history log *)

\* the place of a stage in the pipeline of one image; an image is skipped
\* where it would be rectified
StageRank(stage) ==
    CASE stage = "decode" -> 1
      [] stage = "detect" -> 2
      [] stage = "skip" -> 3
      [] stage = "rectify" -> 3
      [] stage = "segment" -> 4
      [] stage = "measure" -> 5
      [] OTHER -> 6
\* the entries of log that are stages of an image
ImageEntries == {i \in 1..Len(log) : log[i][2] # "stats"}
\* the image of log[i] is done with: skipped, or measured without an exception
Handled(i) ==
    \/ log[i][2] = "skip"
    \/ log[i][2] = "measure" /\ (i = Len(log) => exc = "")

(* C14: within one call the images are handled one after another in input
   order.  The first stage run is the decoding of image 1; of two
   consecutive stages, the second is the next stage of the same image or
   the decoding of the next image, the image before having been skipped or
   measured; no stage of an image runs twice; back at the head of the loop,
   all_measurements holds one measurement per 'measure' stage run; the
   aggregation starts only when every image of the request has been decoded
   and the last one skipped or measured, and it is the last entry. *)
C14_OneImageAtATime ==
    /\ \A i \in 1..Len(log) : log[i][2] = "stats" => i = Len(log)
    /\ ImageEntries # {} => log[1] = <<1, "decode">>
    /\ \A i \in ImageEntries : i + 1 \in ImageEntries =>
          \/ /\ log[i + 1][1] = log[i][1]
             /\ StageRank(log[i + 1][2]) = StageRank(log[i][2]) + 1
          \/ /\ log[i + 1][1] = log[i][1] + 1
             /\ log[i + 1][2] = "decode"
             /\ Handled(i)
    /\ \A i, j \in 1..Len(log) : log[i] = log[j] => i = j
    /\ \A i \in ImageEntries : log[i][1] \in 1..idx
    /\ pc = "for" =>
          Len(all_measurements)
              = Cardinality({i \in ImageEntries : log[i][2] = "measure"})
    /\ (pc = "aggregate" \/ (log # <<>> /\ log[Len(log)][2] = "stats")) =>
          /\ idx = NumImages
          /\ \A k \in 1..NumImages : <<k, "decode">> \in LogSet
          /\ \A i \in ImageEntries : i + 1 \notin ImageEntries => Handled(i)

\* three images, the second skipped: every stage in order, then the statistics
C14_Witness ==
    /\ Finished
    /\ req.images = <<FootAImg, NoMarkerImg, FootBImg>>
    /\ log = << <<1, "decode">>, <<1, "detect">>, <<1, "rectify">>, <<1, "segment">>,
                <<1, "measure">>, <<2, "decode">>, <<2, "detect">>, <<2, "skip">>,
                <<3, "decode">>, <<3, "detect">>, <<3, "rectify">>, <<3, "segment">>,
                <<3, "measure">>, <<2, "stats">> >>

----------------------------------------------------------------------------
\* the number of different ids among the markers detected in img
DistinctIds(img) == Cardinality({img.markers[j].id : j \in 1..Len(img.markers)})
\* the entries of log past the check of the markers
PastCheck == {i \in 1..Len(log) : log[i][2] \in {"rectify", "segment", "measure"}}
\* the transform in use is the one of the first two markers detected in the
\* image in the loop, whatever else was detected
TransformOfFirstTwo ==
    pc \in {"segment", "measure"} =>
        LET ms == req.images[idx].markers
        IN  /\ transform_matrix.shape = <<3, 3>>
            /\ transform_matrix.src_points
                   = <<ms[1].corners[1], ms[1].corners[3],
                       ms[2].corners[1], ms[2].corners[3]>>

(* C15 as stated: an image is rectified, segmented or measured only if at
   least 2 markers with distinct ids were detected in it, and its transform
   is derived from exactly two markers. *)
C15_TwoDistinctMarkers ==
    /\ \A i \in PastCheck : DistinctIds(req.images[log[i][1]]) >= 2
    /\ TransformOfFirstTwo

(* C15 amended: an image is rectified, segmented or measured only if at
   least 2 markers were detected in it; their ids are not compared, two
   detections with the same id count as two.  Its transform is derived from
   exactly two markers, the first two detected, and stays as it is until the
   image is measured.  An image with fewer than 2 detections is skipped
   and contributes no measurement. *)
C15_TwoDetections ==
    /\ \A i \in PastCheck : Len(req.images[log[i][1]].markers) >= 2
    /\ TransformOfFirstTwo
    /\ pc = "for" =>
          /\ Len(all_measurements)
                 <= Cardinality({k \in 1..idx : Len(req.images[k].markers) >= 2})
          /\ \A k \in 1..idx :
                 Len(req.images[k].markers) >= 2 =>
                     {<<k, "rectify">>, <<k, "measure">>} \subseteq LogSet

\* two detections of the marker with id 3: rectified, measured and aggregated
C15_Witness ==
    /\ Finished
    /\ req.images = <<TwinMarkerImg>>
    /\ DistinctIds(TwinMarkerImg) = 1
    /\ <<1, "measure">> \in LogSet
    /\ response.status = 200
    /\ response.result.num_images_processed = 1

====
